---- MODULE Spec2Model ----
(***************************************************************************)
(* State-machine model of the tubefetch ingestion engine:                  *)
(*   youtube_service.py   YouTubeService (credential pool, quota ledger,   *)
(*                        fetch_videos, upsert of Video rows)              *)
(*   cache_service.py     CacheService (Redis entries with TTL)            *)
(*   models.py            Video, APIKeyUsage, SearchCache tables           *)
(* Time is counted in whole hours; Date(t) is the calendar day of hour t.  *)
(***************************************************************************)
EXTENDS Integers, Sequences, FiniteSets, TLC

VARIABLES
    now,                \* the wall clock, in hours (datetime.now / utcnow)
    api_keys,           \* number of configured credentials (len(self.api_keys))
    current_key_index,  \* per service instance: self.current_key_index
    youtube,            \* per service instance: key index the client was built with, NoClient if None
    videos,             \* table video: sequence of committed rows
    ledger,             \* table api_key_usage: sequence of committed rows
    search_cache,       \* table search_cache: sequence of committed rows
    redis_client,       \* CacheService.redis_client: "conn" or "None"
    redis,              \* the Redis keyspace: [skip, search, quota] maps of live entries
    th,                 \* per thread: program counter and locals of fetch_videos
    ret,                \* last value returned by a direct cache-service call
    tu,                 \* bookkeeping of direct trackUsage calls: cost, calls today, day, total calls
    fetcher             \* the BackgroundVideoFetcher: running, thread, its worker threads and the callers of start / stop

vars == <<now, api_keys, current_key_index, youtube, videos, ledger, search_cache,
          redis_client, redis, th, ret, tu, fetcher>>

----------------------------------------------------------------------------
(* Bounds of the model *)

MaxKeys == 2        \* credentials configured in the environment (the code reads up to 3)
MaxHour == 2        \* hours the clock advances within one day
MaxDay == 1         \* day rollovers
MaxCalls == 3       \* direct trackUsage calls
CacheMaxHour == 6   \* hours the clock advances in the cache-service specification
MaxCacheOps == 2    \* cache writes in the cache-service specification

(* Program constants *)

QuotaThreshold == 9500   \* youtube_service.py:76
SearchCost == 100        \* youtube_service.py:130
DetailsCost == 1         \* youtube_service.py:168
FreshHours == 2          \* cache_service.py:70
SkipTTL == 6             \* cache_service.py:165
HoursPerDay == 24

NoTime == -1             \* a timestamp column that is still None
NoClient == -1           \* self.youtube is None

Date(t) == t \div HoursPerDay

Services == {"bg", "api"}
\* the scheduler's worker, a request handler, and the worker of a second start()
Threads == {"worker", "req", "worker2"}
\* the threads of the specifications of concurrent fetch cycles
Racers == {"worker", "req"}
\* background_fetcher.py:19 builds its own YouTubeService; api_routes.py:10 another
ServiceOf(t) == IF t = "req" THEN "api" ELSE "bg"

----------------------------------------------------------------------------
(* Credential ledger: YouTubeService._track_api_usage *)

\* hashlib.sha256(api_key): distinct configured keys have distinct digests
KeyHash(i) == <<"sha256", i>>

\* APIKeyUsage.query.filter_by(api_key_hash=h).first(): lowest row id, 0 when absent
FirstUsage(h) ==
    LET hits == {i \in DOMAIN ledger : ledger[i].api_key_hash = h}
    IN IF hits = {} THEN 0 ELSE CHOOSE i \in hits : \A j \in hits : i <= j

\* the object the session holds after lines 61-65: a loaded row, or a new
\* APIKeyUsage() whose column defaults are not applied before the flush
LoadUsage(h) ==
    LET i == FirstUsage(h)
    IN IF i = 0
       THEN [row |-> 0, api_key_hash |-> h, quota_used |-> 0,
             is_exhausted |-> FALSE, last_reset |-> NoTime]
       ELSE [row |-> i, api_key_hash |-> h, quota_used |-> ledger[i].quota_used,
             is_exhausted |-> ledger[i].is_exhausted, last_reset |-> ledger[i].last_reset]

MutNoDayReset(u, cost, t) ==
    LET q == u.quota_used + cost
    IN [u EXCEPT !.quota_used = q,
                 !.last_reset = IF u.last_reset = NoTime THEN t ELSE u.last_reset,
                 !.is_exhausted = IF q >= QuotaThreshold THEN TRUE ELSE u.is_exhausted]

MutStrictThreshold(u, cost, t) ==
    LET r == IF u.last_reset = NoTime \/ Date(u.last_reset) < Date(t)
             THEN [u EXCEPT !.quota_used = 0, !.is_exhausted = FALSE, !.last_reset = t]
             ELSE u
        q == r.quota_used + cost
    IN [r EXCEPT !.quota_used = q,
                 !.is_exhausted = IF q > QuotaThreshold THEN TRUE ELSE r.is_exhausted]

\* lines 67-77: reset on a new day, add the cost, mark exhausted at the threshold
UsageAfter(u, cost, t) ==
    LET r == IF u.last_reset = NoTime \/ Date(u.last_reset) < Date(t)
             THEN [u EXCEPT !.quota_used = 0, !.is_exhausted = FALSE, !.last_reset = t]
             ELSE u
        q == r.quota_used + cost
    IN [r EXCEPT !.quota_used = q,
                 !.is_exhausted = IF q >= QuotaThreshold THEN TRUE ELSE r.is_exhausted]

\* line 79, db.session.commit(): INSERT of a new row, or UPDATE by primary key of
\* the columns whose value differs from the loaded one
CommitUsage(led, old, new) ==
    IF old.row = 0
    THEN Append(led, [api_key_hash |-> new.api_key_hash, quota_used |-> new.quota_used,
                      is_exhausted |-> new.is_exhausted, last_reset |-> new.last_reset])
    ELSE [led EXCEPT ![old.row] =
            [api_key_hash |-> @.api_key_hash,
             quota_used |-> IF new.quota_used # old.quota_used THEN new.quota_used ELSE @.quota_used,
             is_exhausted |-> IF new.is_exhausted # old.is_exhausted THEN new.is_exhausted ELSE @.is_exhausted,
             last_reset |-> IF new.last_reset # old.last_reset THEN new.last_reset ELSE @.last_reset]]

\* line 55: the early return when no credential is at the active index
CanTrack(s) == api_keys > 0 /\ current_key_index[s] < api_keys

----------------------------------------------------------------------------
(* Result cache: CacheService over a Redis keyspace *)

Queries == {"a", "b"}
VideoIds == {"v1", "v2"}
Titles == {"t1", "t2"}

\* Optional values: <<>> is None, <<x>> is x
None == <<>>
Some(x) == <<x>>

\* hashlib.md5(f"{query}:".encode()).hexdigest()[:8] for the queries of the model
Md5Prefix(q) ==
    CASE q = "a" -> "35750398"
      [] q = "b" -> "24770ff7"
      [] OTHER -> "8d6095a6"

\* _get_cache_key(prefix, query) with no extra parameters
GetCacheKey(prefix, q) == <<prefix, Md5Prefix(q)>>

\* a timestamp value inside a result item: a datetime object or a string
DateTime(n) == [type |-> "datetime", v |-> n]
IsoString(n) == [type |-> "str", v |-> n]

\* json.dumps(x, default=str): values JSON cannot encode are written as str(value)
JsonDumps(results) ==
    [items |-> [i \in DOMAIN results.items |->
        [results.items[i] EXCEPT !.published_at = [type |-> "str", v |-> @.v]]]]

\* json.loads: the document's own values (strings stay strings)
JsonLoads(doc) == doc

\* redis-py raises when the client cannot reach the server
RedisReachable == redis.up

\* a map with entry k set to v
Put(m, k, v) == [x \in DOMAIN m \cup {k} |-> IF x = k THEN v ELSE m[x]]

\* Redis drops a key once its expiry time is reached
Unexpired(m, t) == [x \in {k \in DOMAIN m : m[k].expire_at > t} |-> m[x]]
ExpireKeys(r, t) ==
    [r EXCEPT !.skip = Unexpired(@, t), !.search = Unexpired(@, t), !.quota = Unexpired(@, t)]

\* cache_search_results: setex(key, expiry_hours, json), errors swallowed
CacheSearchResults(q, results, expiry_hours) ==
    IF redis_client = "None" \/ ~RedisReachable
    THEN redis
    ELSE [redis EXCEPT !.search = Put(@, GetCacheKey("search", q),
            [query |-> q, results |-> JsonDumps(results),
             cached_at |-> now, expire_at |-> now + expiry_hours])]

\* get_cached_search_results: the entry's results if cached less than 2 hours ago
GetCachedSearchResults(q) ==
    IF redis_client = "None" \/ ~RedisReachable
    THEN None
    ELSE LET k == GetCacheKey("search", q)
         IN IF k \in DOMAIN redis.search /\ now - redis.search[k].cached_at < FreshHours
            THEN Some(JsonLoads(redis.search[k].results))
            ELSE None

MutSkipIgnoresCount(q, hours_threshold) ==
    /\ redis_client # "None"
    /\ RedisReachable
    /\ q \in DOMAIN redis.skip
    /\ now - redis.skip[q].last_attempt < hours_threshold

\* a skip check that would trust the marker without reaching the server
MutSkipWhenDown(q, hours_threshold) ==
    /\ q \in DOMAIN redis.skip
    /\ now - redis.skip[q].last_attempt < hours_threshold
    /\ redis.skip[q].new_videos = 0

\* should_skip_query: a marker younger than the threshold that recorded no new videos
ShouldSkipQuery(q, hours_threshold) ==
    /\ redis_client # "None"
    /\ RedisReachable
    /\ q \in DOMAIN redis.skip
    /\ now - redis.skip[q].last_attempt < hours_threshold
    /\ redis.skip[q].new_videos = 0

\* mark_query_processed: setex("skip:<query>", 6 hours, json)
MarkQueryProcessed(q, new_videos_count) ==
    IF redis_client = "None" \/ ~RedisReachable
    THEN redis
    ELSE [redis EXCEPT !.skip = Put(@, q,
            [last_attempt |-> now, new_videos |-> new_videos_count,
             expire_at |-> now + SkipTTL])]

\* get_quota_usage: the day's mirror entry of a key index, or the default
GetQuotaUsage(api_key_index) ==
    LET k == <<api_key_index, Date(now)>>
    IN IF redis_client # "None" /\ RedisReachable /\ k \in DOMAIN redis.quota
       THEN [calls_today |-> redis.quota[k].calls_today,
             quota_exhausted |-> redis.quota[k].quota_exhausted]
       ELSE [calls_today |-> 0, quota_exhausted |-> FALSE]

\* update_quota_usage: rewrite the day's mirror entry, expiring at the end of the day
UpdateQuotaUsage(api_key_index, calls_made, quota_exhausted) ==
    IF redis_client = "None" \/ ~RedisReachable
    THEN redis
    ELSE [redis EXCEPT !.quota = Put(@, <<api_key_index, Date(now)>>,
            [calls_today |-> GetQuotaUsage(api_key_index).calls_today + calls_made,
             quota_exhausted |-> quota_exhausted,
             expire_at |-> (Date(now) + 1) * HoursPerDay])]

----------------------------------------------------------------------------
(* The clock *)

EmptyMap == [x \in {} |-> 0]
EmptyRedis == [up |-> TRUE, skip |-> EmptyMap, search |-> EmptyMap, quota |-> EmptyMap]

\* an hour passes
TickHour ==
    /\ now < MaxHour
    /\ now' = now + 1
    /\ redis' = ExpireKeys(redis, now')
    /\ UNCHANGED <<api_keys, current_key_index, youtube, videos, ledger, search_cache,
                   redis_client, th, ret, tu, fetcher>>

\* the clock reaches the next midnight
TickDay ==
    /\ Date(now) < MaxDay
    /\ now' = (Date(now) + 1) * HoursPerDay
    /\ redis' = ExpireKeys(redis, now')
    /\ UNCHANGED <<api_keys, current_key_index, youtube, videos, ledger, search_cache,
                   redis_client, th, ret, tu, fetcher>>

----------------------------------------------------------------------------
(* Per-thread state of fetch_videos and bookkeeping records *)

NoRet == [op |-> "none", query |-> "a", arg |-> 0, val |-> None, found |-> None,
          at |-> 0, reach |-> FALSE, wrote |-> None, ops |-> 0]
\* a returned value is observed in the state right after the call only
Forget(r) == [NoRet EXCEPT !.wrote = r.wrote, !.ops = r.ops]

\* cost, calls today, day, calls: direct trackUsage calls; fetches: fetch_videos
\* calls started; charged: units of completed _track_api_usage calls per key;
\* latest: per video id, the title of the last ingestion committed to the store
NoTrack == [cost |-> 0, today |-> 0, day |-> 0, calls |-> 0,
            fetches |-> [t \in Threads |-> 0],
            charged |-> [k \in 0..2 |-> 0], latest |-> [v \in VideoIds |-> ""]]

NoToken == "none"
PageTokens == {NoToken, "tok"}
NoCount == -1            \* view_count is NULL / the key is absent from video_data

NoUsage == [row |-> 0, api_key_hash |-> KeyHash(0), quota_used |-> 0,
            is_exhausted |-> FALSE, last_reset |-> NoTime]
\* error: the HttpError an "api_error" failure carries in its message
NoError == [status |-> 0, reason |-> "", message |-> ""]
NoResult == [outcome |-> "none", items |-> <<>>, cached |-> FALSE, skipped |-> FALSE,
             stored_count |-> 0, nextPageToken |-> NoToken, error |-> NoError]

IdleThread ==
    [pc |-> "idle", query |-> "a", page_token |-> NoToken,
     depth |-> 0,              \* recursion depth of fetch_videos
     videos |-> <<>>,          \* the list videos of lines 132-182
     nextPageToken |-> NoToken,
     cost |-> 0,               \* quota_cost of the _track_api_usage call in progress
     usage_old |-> NoUsage,    \* the APIKeyUsage object as loaded
     usage_new |-> NoUsage,    \* the same object after lines 67-77
     tracked |-> FALSE,        \* whether that call passed the guard of line 55
     pending |-> <<>>,         \* the session's unflushed Video inserts and updates
     stored_count |-> 0,
     spent |-> 0,              \* quota units the current invocation has charged
     sc_row |-> 0,             \* the SearchCache row loaded at line 201, 0 if new
     result |-> NoResult,
     attempts |-> 0,           \* remote search calls of this top-level fetch
     inv_calls |-> 0,          \* remote calls of the current invocation
     looked |-> {},            \* cache namespaces the current invocation consulted
     last_resp |-> "none",     \* the last remote response of this fetch
     call_key |-> NoClient,    \* credential the last remote call was made with
     retry_of |-> NoClient]    \* credential whose quota-exceeded response caused this invocation

\* a worker thread of the scheduler: position in _fetch_loop, its local
\* query_index, the query of the iteration, the sleeps still to do before the
\* next iteration, and per finished iteration the query, outcome and sleeps
NoWorker == [pc |-> "unborn", query_index |-> 0, current_query |-> "",
             sleeps |-> <<>>, log |-> <<>>]

\* the threads start() can create in one run of the model
WorkerIds == {1, 2}
Controllers == {"main", "other"}

\* BackgroundVideoFetcher.__init__, lines 17-21: not running, no thread; thread
\* is the worker self.thread refers to, 0 for None; ctl: per caller of start()
\* and stop(), its position, the thread it joins and the workers that were
\* alive when its stop() gave the signal
NoCaller == [pc |-> "idle", target |-> 0, saw |-> {}]
NoFetcher == [running |-> FALSE, thread |-> 0,
              w |-> [i \in WorkerIds |-> NoWorker],
              ctl |-> [c \in Controllers |-> NoCaller]]

----------------------------------------------------------------------------
(* Specification SpecLedger: _track_api_usage called directly, one credential *)

Costs == {1, 100, 4750, 9499, 9500}

\* _track_api_usage(quota_cost) run to completion on service s
TrackApiUsage(s, quota_cost) ==
    IF CanTrack(s)
    THEN LET u == LoadUsage(KeyHash(current_key_index[s]))
         IN CommitUsage(ledger, u, UsageAfter(u, quota_cost, now))
    ELSE ledger

LedgerInit ==
    /\ now = 0
    /\ api_keys = 1
    /\ current_key_index = [s \in Services |-> 0]
    /\ youtube = [s \in Services |-> 0]
    /\ videos = <<>>
    /\ ledger = <<>>
    /\ search_cache = <<>>
    /\ redis_client = "conn"
    /\ redis = EmptyRedis
    /\ th = [t \in Threads |-> IdleThread]
    /\ ret = NoRet
    /\ \E c \in Costs : tu = [NoTrack EXCEPT !.cost = c]
    /\ fetcher = NoFetcher

LedgerTrack ==
    /\ tu.calls < MaxCalls
    /\ ledger' = TrackApiUsage("api", tu.cost)
    /\ tu' = [tu EXCEPT !.calls = @ + 1,
                        !.today = IF tu.calls > 0 /\ tu.day = Date(now) THEN @ + 1 ELSE 1,
                        !.day = Date(now)]
    /\ UNCHANGED <<now, api_keys, current_key_index, youtube, videos, search_cache,
                   redis_client, redis, th, ret, fetcher>>

LedgerNext == LedgerTrack \/ TickHour \/ TickDay

SpecLedger == LedgerInit /\ [][LedgerNext]_vars

\* C2: N calls of trackUsage with cost C on a fresh ledger row within one calendar
\* day leave quota_used = N*C and exhausted = (N*C >= 9500), in a single row.
TrackUsageAccumulates ==
    tu.calls >= 1 =>
        /\ Len(ledger) = 1
        /\ ledger[1].api_key_hash = KeyHash(0)
        /\ ledger[1].quota_used = tu.today * tu.cost
        /\ ledger[1].is_exhausted = (tu.today * tu.cost >= 9500)

\* C2 witness: three calls on one day that end exactly past the threshold
TrackUsageAccumulatesWitness ==
    /\ tu.calls = 3 /\ tu.today = 3 /\ tu.cost = 4750
    /\ Len(ledger) = 1
    /\ ledger[1].quota_used = 14250 /\ ledger[1].is_exhausted

\* C3: a trackUsage call that touches a row last reset on an earlier date resets
\* usage and the exhausted flag before adding, so the row then holds exactly that
\* call's cost and today's reset time.
TrackUsageResetsOnNewDay ==
    [][\A i \in DOMAIN ledger :
         (ledger'[i] # ledger[i] /\ Date(ledger[i].last_reset) < Date(now)) =>
            /\ ledger'[i].quota_used = tu.cost
            /\ ledger'[i].is_exhausted = (tu.cost >= 9500)
            /\ ledger'[i].last_reset = now]_vars

\* C3 witness: a row used on an earlier day, touched once today
TrackUsageResetsOnNewDayWitness ==
    /\ tu.calls >= 2 /\ tu.today = 1
    /\ Date(now) >= 1
    /\ Len(ledger) = 1
    /\ ledger[1].last_reset = now
    /\ ledger[1].quota_used = tu.cost

----------------------------------------------------------------------------
(* Specification SpecCache: the cache service called directly *)

\* result sets handed to cache_search_results: the remote API's JSON items
\* (publishedAt a string) and fetch_videos' normalized items (published_at a
\* datetime, youtube_service.py line 151)
RawItem(v) == [video_id |-> v, title |-> "t1", published_at |-> IsoString(0)]
NormalizedItem(v) == [video_id |-> v, title |-> "t1", published_at |-> DateTime(0)]
CacheResults ==
    {[items |-> <<RawItem("v1")>>], [items |-> <<NormalizedItem("v1")>>]}
ExpiryHours == {1, 2, 3}
SkipThresholds == {1, 6}

\* what GET returns to the client for a key of map m: None when the client is
\* missing, the server unreachable or the key absent
RedisGet(m, k) ==
    IF redis_client # "None" /\ RedisReachable /\ k \in DOMAIN m THEN Some(m[k]) ELSE None

CacheInit ==
    /\ now = 0
    /\ api_keys = 1
    /\ current_key_index = [s \in Services |-> 0]
    /\ youtube = [s \in Services |-> 0]
    /\ videos = <<>>
    /\ ledger = <<>>
    /\ search_cache = <<>>
    /\ redis_client \in {"conn", "None"}
    /\ redis = EmptyRedis
    /\ th = [t \in Threads |-> IdleThread]
    /\ ret = NoRet
    /\ tu = NoTrack
    /\ fetcher = NoFetcher

CsUnchanged ==
    UNCHANGED <<now, api_keys, current_key_index, youtube, videos, ledger, search_cache,
                redis_client, th, tu, fetcher>>

Reachable == redis_client # "None" /\ RedisReachable

CsMarkQueryProcessed ==
    /\ ret.ops < MaxCacheOps
    /\ \E q \in Queries, n \in {0, 1} :
        /\ redis' = MarkQueryProcessed(q, n)
        /\ ret' = [Forget(ret) EXCEPT !.ops = @ + 1]
    /\ CsUnchanged

CsShouldSkipQuery ==
    /\ ret.op = "none"
    /\ \E q \in Queries, h \in SkipThresholds :
        ret' = [ret EXCEPT !.op = "should_skip", !.query = q, !.arg = h, !.at = now, !.reach = Reachable,
                           !.found = RedisGet(redis.skip, q),
                           !.val = Some(ShouldSkipQuery(q, h))]
    /\ UNCHANGED redis
    /\ CsUnchanged

CsCacheSearchResults ==
    /\ ret.ops < MaxCacheOps
    /\ \E q \in Queries, r \in CacheResults, e \in ExpiryHours :
        /\ redis' = CacheSearchResults(q, r, e)
        /\ ret' = [Forget(ret) EXCEPT !.ops = @ + 1,
                              !.wrote = Some([query |-> q, results |-> r, at |-> now, ttl |-> e,
                                              stored |-> Reachable])]
    /\ CsUnchanged

CsGetCachedSearchResults ==
    /\ ret.op = "none"
    /\ \E q \in Queries :
        ret' = [ret EXCEPT !.op = "get_cached", !.query = q, !.arg = 0, !.at = now, !.reach = Reachable,
                           !.found = RedisGet(redis.search, GetCacheKey("search", q)),
                           !.val = GetCachedSearchResults(q)]
    /\ UNCHANGED redis
    /\ CsUnchanged

CacheTickHour ==
    /\ now < CacheMaxHour
    /\ now' = now + 1
    /\ redis' = ExpireKeys(redis, now')
    /\ ret' = Forget(ret)
    /\ UNCHANGED <<api_keys, current_key_index, youtube, videos, ledger, search_cache,
                   redis_client, th, tu, fetcher>>

\* the Redis server becomes unreachable, or reachable again
RedisOutage ==
    /\ redis_client # "None"
    /\ redis' = [redis EXCEPT !.up = ~@]
    /\ ret' = Forget(ret)
    /\ UNCHANGED <<now, api_keys, current_key_index, youtube, videos, ledger, search_cache,
                   redis_client, th, tu, fetcher>>

CacheNext ==
    \/ CsMarkQueryProcessed
    \/ CsShouldSkipQuery
    \/ CsCacheSearchResults
    \/ CsGetCachedSearchResults
    \/ CacheTickHour
    \/ RedisOutage

SpecCache == CacheInit /\ [][CacheNext]_vars

\* C5: shouldSkipQuery(query, threshold) is true exactly when the lookup yields a
\* skip-marker for the query whose age is strictly below the threshold and whose
\* recorded new-item count is 0.
ShouldSkipIff ==
    ret.op = "should_skip" =>
        ret.val = Some(/\ ret.found # None
                       /\ ret.at - ret.found[1].last_attempt < ret.arg
                       /\ ret.found[1].new_videos = 0)

\* C5 witness: a marker with count 0 whose age is exactly the threshold is not skipped
ShouldSkipIffWitness ==
    /\ ret.op = "should_skip"
    /\ ret.found # None
    /\ ret.found[1].new_videos = 0
    /\ ret.at - ret.found[1].last_attempt = ret.arg
    /\ ret.val = Some(FALSE)

\* C6: reading a search-result entry back for the same query within its TTL
\* returns the item data that was written; after the TTL it returns nothing.
SearchCacheRoundTrip ==
    (/\ ret.op = "get_cached"
     /\ ret.wrote # None
     /\ ret.wrote[1].stored
     /\ ret.wrote[1].query = ret.query
     /\ ret.reach) =>
        IF ret.at - ret.wrote[1].at < ret.wrote[1].ttl
        THEN ret.val = Some(ret.wrote[1].results)
        ELSE ret.val = None

----------------------------------------------------------------------------
(* The Video table and the upsert loop of fetch_videos, lines 184-198 *)

\* Video.query.filter_by(video_id=v).first(): the row's index, 0 when absent
RowOf(tbl, v) ==
    LET hits == {i \in DOMAIN tbl : tbl[i].video_id = v}
    IN IF hits = {} THEN 0 ELSE CHOOSE i \in hits : \A j \in hits : i <= j

NoVideo == [video_id |-> "", title |-> "", view_count |-> NoCount, created_at |-> NoTime]

\* the last item of the batch that carries id v
LastItem(batch, v) ==
    batch[CHOOSE i \in DOMAIN batch :
            /\ batch[i].video_id = v
            /\ \A j \in DOMAIN batch : batch[j].video_id = v => j <= i]

\* the distinct ids of a batch, in order of first occurrence
RECURSIVE DistinctIds(_)
DistinctIds(batch) ==
    IF batch = <<>> THEN <<>>
    ELSE LET front == DistinctIds(SubSeq(batch, 1, Len(batch) - 1))
             v == batch[Len(batch)].video_id
         IN IF \E i \in DOMAIN front : front[i] = v THEN front ELSE Append(front, v)

\* the session's pending work after the loop: per distinct id an INSERT (row 0)
\* or an UPDATE of the loaded row; a repeated id updates the object added earlier
\* in the loop (the query autoflushes it), so the last item's values win
PendingOf(batch, tbl) ==
    LET ids == DistinctIds(batch)
    IN [i \in DOMAIN ids |->
          LET r == RowOf(tbl, ids[i])
              last == LastItem(batch, ids[i])
          IN [video_id |-> ids[i], row |-> r,
              loaded |-> IF r = 0 THEN NoVideo ELSE tbl[r],
              title |-> last.title, view_count |-> last.view_count]]

\* a count of every id the loop handled, added or updated
MutCountsUpdates(pending) == Len(pending)

\* stored_count: one per Video(**video_data) added
StoredCount(pending) == Cardinality({i \in DOMAIN pending : pending[i].row = 0})

\* the unique constraint on video.video_id (models.py line 7) at flush time
NoUniqueViolation(tbl, pending) ==
    \A i \in DOMAIN pending : pending[i].row = 0 => RowOf(tbl, pending[i].video_id) = 0

\* db.session.commit() of line 198: UPDATE by primary key of the columns whose
\* value differs from the loaded one (video_id and created_at are never set),
\* then the INSERTs, created_at defaulting to the current time
ApplyVideos(tbl, pending, t) ==
    LET upd == [r \in DOMAIN tbl |->
                  IF \E i \in DOMAIN pending : pending[i].row = r
                  THEN LET p == pending[CHOOSE i \in DOMAIN pending : pending[i].row = r]
                       IN [tbl[r] EXCEPT
                             !.title = IF p.title # p.loaded.title THEN p.title ELSE @,
                             !.view_count = IF p.view_count # NoCount
                                               /\ p.view_count # p.loaded.view_count
                                            THEN p.view_count ELSE @]
                  ELSE tbl[r]]
        ins == SelectSeq(pending, LAMBDA p : p.row = 0)
    IN upd \o [i \in DOMAIN ins |->
                 [video_id |-> ins[i].video_id, title |-> ins[i].title,
                  view_count |-> ins[i].view_count, created_at |-> t]]

----------------------------------------------------------------------------
(* The SearchCache table, lines 200-210 *)

FirstSearchCache(q) ==
    LET hits == {i \in DOMAIN search_cache : search_cache[i].query = q}
    IN IF hits = {} THEN 0 ELSE CHOOSE i \in hits : \A j \in hits : i <= j

NoSearchCache == [query |-> "", last_fetched |-> NoTime, total_results |-> 0,
                  next_page_token |-> NoToken]

\* lines 202-210: INSERT of a new row, or UPDATE by primary key of the columns
\* whose value differs from the loaded one
CommitSearchCache(tbl, row, loaded, q, n, token, t) ==
    IF row = 0
    THEN Append(tbl, [query |-> q, last_fetched |-> t, total_results |-> n,
                      next_page_token |-> token])
    ELSE [tbl EXCEPT ![row] =
            [query |-> @.query,
             last_fetched |-> IF t # loaded.last_fetched THEN t ELSE @.last_fetched,
             total_results |-> IF n # loaded.total_results THEN n ELSE @.total_results,
             next_page_token |-> IF token # loaded.next_page_token THEN token
                                 ELSE @.next_page_token]]

----------------------------------------------------------------------------
(* The remote API *)

\* queries passed to fetch_videos
FetchQueries == {"a"}
MaxBatch == 2       \* items in one search response
MaxWorkerFetches == 2    \* fetch_videos calls of the worker
MaxHandlerFetches == 1   \* fetch_videos calls of the request handler beside it
MaxCallerFetches == 2    \* fetch_videos calls of the single caller

DefaultSkipHours == 6    \* cache_service.py:125

\* items the remote search can return
SearchItems ==
    {[video_id |-> "v1", title |-> "t1"], [video_id |-> "v1", title |-> "t2"]}
Batches == UNION {[1..n -> SearchItems] : n \in 0..MaxBatch}
\* the empty page and a page of one item
ShortBatches == {<<>>, <<[video_id |-> "v1", title |-> "t1"]>>}

\* search_response.get('nextPageToken'): a full page has a continuation
NextTokenOf(batch) == IF Len(batch) >= MaxBatch THEN "tok" ELSE NoToken

\* lines 135-159: video_data per search result (no duration / view_count yet)
Normalize(batch) ==
    [i \in DOMAIN batch |->
        [video_id |-> batch[i].video_id, title |-> batch[i].title, view_count |-> NoCount]]

\* statistics.viewCount the detail call reports for an item
ViewCountOf(item) == IF item.title = "t1" THEN 5 ELSE 6

\* lines 170-182: merge the details into the videos the response has details for
MergeDetails(vs, have) ==
    [i \in DOMAIN vs |->
        IF have THEN [vs[i] EXCEPT !.view_count = ViewCountOf(vs[i])] ELSE vs[i]]

----------------------------------------------------------------------------
(* YouTubeService.fetch_videos, one step per access to shared state *)

\* the thread's record once the call has returned res or raised
Done(r, res) ==
    [IdleThread EXCEPT !.pc = "done", !.query = r.query, !.page_token = r.page_token,
                       !.depth = r.depth, !.attempts = r.attempts,
                       !.inv_calls = r.inv_calls, !.looked = r.looked,
                       !.last_resp = r.last_resp, !.call_key = r.call_key,
                       !.retry_of = r.retry_of, !.stored_count = r.stored_count,
                       !.spent = r.spent, !.result = res]
Raise(r, outcome) == Done(r, [NoResult EXCEPT !.outcome = outcome])

\* line 101 and line 107: the skipped result and the served-from-cache result
SkippedResult == [NoResult EXCEPT !.outcome = "ok", !.cached = TRUE, !.skipped = TRUE]
CachedResult(cached) ==
    [NoResult EXCEPT !.outcome = "ok", !.cached = TRUE, !.items = cached.items]

MutNoAdvance(idx) == idx

\* _switch_api_key, line 47: the index always advances
IndexAfterSwitch(idx) == idx + 1

\* lines 48-51: the call reports whether a credential is at the new index
SwitchSucceeds(idx) == IndexAfterSwitch(idx) < api_keys

MutKeepClient(idx, yt) == yt

\* _initialize_youtube_client, lines 35-43, as called by a switch from idx: the
\* client is rebuilt only for an index in the list
ClientAfterSwitch(idx, yt) == IF SwitchSucceeds(idx) THEN IndexAfterSwitch(idx) ELSE yt

MutCachedFirst(t, r, idx, yt) ==
    LET cached == GetCachedSearchResults(r.query)
        first == r.page_token = NoToken
    IN IF yt = NoClient
       THEN Raise(r, "not_initialized")
       ELSE IF first /\ cached # None
       THEN Done([r EXCEPT !.looked = {"search"}], CachedResult(cached[1]))
       ELSE IF first /\ ShouldSkipQuery(r.query, DefaultSkipHours)
       THEN Done([r EXCEPT !.looked = {"skip", "search"}], SkippedResult)
       ELSE LET seen == (IF first THEN {"skip", "search"} ELSE {}) \cup {"quota"}
            IN IF GetQuotaUsage(idx).quota_exhausted /\ ~SwitchSucceeds(idx)
               THEN Raise([r EXCEPT !.looked = seen], "exhausted")
               ELSE [r EXCEPT !.pc = "search", !.looked = seen]

MutCacheOnAnyPage(t, r, idx, yt) ==
    LET cached == GetCachedSearchResults(r.query)
    IN IF yt = NoClient
       THEN Raise(r, "not_initialized")
       ELSE IF ShouldSkipQuery(r.query, DefaultSkipHours)
       THEN Done([r EXCEPT !.looked = {"skip"}], SkippedResult)
       ELSE IF cached # None
       THEN Done([r EXCEPT !.looked = {"skip", "search"}], CachedResult(cached[1]))
       ELSE IF GetQuotaUsage(idx).quota_exhausted /\ ~SwitchSucceeds(idx)
       THEN Raise([r EXCEPT !.looked = {"skip", "search", "quota"}], "exhausted")
       ELSE [r EXCEPT !.pc = "search", !.looked = {"skip", "search", "quota"}]

\* lines 93-114 of an invocation with locals r, entered with active index idx and
\* client yt: the thread's record when the invocation returns, raises or reaches
\* the remote search call
Entered(t, r, idx, yt) ==
    LET cached == GetCachedSearchResults(r.query)
        first == r.page_token = NoToken
    IN IF yt = NoClient
       THEN Raise(r, "not_initialized")
       ELSE IF first /\ ShouldSkipQuery(r.query, DefaultSkipHours)
       THEN Done([r EXCEPT !.looked = {"skip"}], SkippedResult)
       ELSE IF first /\ cached # None
       THEN Done([r EXCEPT !.looked = {"skip", "search"}], CachedResult(cached[1]))
       ELSE LET seen == (IF first THEN {"skip", "search"} ELSE {}) \cup {"quota"}
            IN IF GetQuotaUsage(idx).quota_exhausted /\ ~SwitchSucceeds(idx)
               THEN Raise([r EXCEPT !.looked = seen], "exhausted")
               ELSE [r EXCEPT !.pc = "search", !.looked = seen]

\* a fetch_videos that never acts on the quota mirror
MutNeverSwitches(t, r, idx, yt) == FALSE

\* whether lines 111-113 of that invocation call _switch_api_key
EnterSwitches(t, r, idx, yt) ==
    LET first == r.page_token = NoToken
    IN /\ yt # NoClient
       /\ ~(first /\ ShouldSkipQuery(r.query, DefaultSkipHours))
       /\ ~(first /\ GetCachedSearchResults(r.query) # None)
       /\ GetQuotaUsage(idx).quota_exhausted

\* a fetch_videos invocation of thread t starts with locals r
Enter(t, r, idx, yt) ==
    LET s == ServiceOf(t)
        sw == EnterSwitches(t, r, idx, yt)
    IN /\ th' = [th EXCEPT ![t] = Entered(t, r, idx, yt)]
       /\ current_key_index' =
            [current_key_index EXCEPT ![s] = IF sw THEN IndexAfterSwitch(idx) ELSE idx]
       /\ youtube' = [youtube EXCEPT ![s] = IF sw THEN ClientAfterSwitch(idx, yt) ELSE yt]

\* a caller that has the result of its previous call, if any, invokes
\* fetch_videos(query, page_token=p) for one of the given queries
StartFetchOf(t, queries, tokens, max) ==
    /\ th[t].pc \in {"idle", "done"}
    /\ tu.fetches[t] < max
    /\ \E q \in queries, p \in tokens :
         Enter(t, [IdleThread EXCEPT !.query = q, !.page_token = p],
               current_key_index[ServiceOf(t)], youtube[ServiceOf(t)])
    /\ tu' = [tu EXCEPT !.fetches[t] = @ + 1]
    /\ UNCHANGED <<now, api_keys, videos, ledger, search_cache, redis_client, redis, ret,
                fetcher>>

StartFetch(t, tokens, max) == StartFetchOf(t, FetchQueries, tokens, max)

\* _track_api_usage up to the commit: the object loaded and modified
Tracking(t, r, quota_cost) ==
    LET s == ServiceOf(t)
        u == LoadUsage(KeyHash(current_key_index[s]))
    IN IF CanTrack(s)
       THEN [r EXCEPT !.pc = "track", !.cost = quota_cost, !.tracked = TRUE,
                      !.usage_old = u, !.usage_new = UsageAfter(u, quota_cost, now)]
       ELSE [r EXCEPT !.pc = "track", !.cost = quota_cost, !.tracked = FALSE]

\* lines 120-130: the search call returns a page of items
SearchOk(t, batches) ==
    /\ th[t].pc = "search"
    /\ \E b \in batches :
         th' = [th EXCEPT ![t] =
                  Tracking(t, [th[t] EXCEPT !.attempts = @ + 1, !.inv_calls = @ + 1,
                                            !.last_resp = "ok",
                                            !.call_key = youtube[ServiceOf(t)],
                                            !.videos = Normalize(b),
                                            !.nextPageToken = NextTokenOf(b)],
                           SearchCost)]
    /\ UNCHANGED <<now, api_keys, current_key_index, youtube, videos, ledger, search_cache,
                   redis_client, redis, ret, tu, fetcher>>

\* lines 227-232, for an error response whose reason is resp: switch and retry
\* the whole fetch, or give up
SwitchAndRetry(t, r, resp) ==
    LET s == ServiceOf(t)
        idx == current_key_index[s]
        used == youtube[s]
        r1 == [r EXCEPT !.inv_calls = @ + 1, !.last_resp = resp,
                        !.call_key = used]
    IN IF SwitchSucceeds(idx)
       THEN Enter(t, [IdleThread EXCEPT !.query = r1.query, !.page_token = r1.page_token,
                                        !.depth = r1.depth + 1, !.attempts = r1.attempts,
                                        !.last_resp = r1.last_resp, !.call_key = used,
                                        !.retry_of = used],
                  IndexAfterSwitch(idx), ClientAfterSwitch(idx, used))
       ELSE /\ th' = [th EXCEPT ![t] = Raise(r1, "exhausted")]
            /\ current_key_index' = [current_key_index EXCEPT ![s] = IndexAfterSwitch(idx)]
            /\ youtube' = youtube

\* lines 226-232: HTTP 403 quotaExceeded
OnQuotaExceeded(t, r) == SwitchAndRetry(t, r, "quotaExceeded")

SearchQuotaExceeded(t) ==
    /\ th[t].pc = "search"
    /\ OnQuotaExceeded(t, [th[t] EXCEPT !.attempts = @ + 1])
    /\ UNCHANGED <<now, api_keys, videos, ledger, search_cache, redis_client, redis, ret, tu,
                fetcher>>

\* line 234: any other HttpError is re-raised as "YouTube API error"
SearchError(t) ==
    /\ th[t].pc = "search"
    /\ th' = [th EXCEPT ![t] =
                Raise([th[t] EXCEPT !.attempts = @ + 1, !.inv_calls = @ + 1,
                                    !.last_resp = "error",
                                    !.call_key = youtube[ServiceOf(t)]], "api_error")]
    /\ UNCHANGED <<now, api_keys, current_key_index, youtube, videos, ledger, search_cache,
                   redis_client, redis, ret, tu, fetcher>>

\* db.session.commit() of line 79, then the code up to the next access to shared
\* state: the detail call of line 163 or the upsert loop of lines 186-196
TrackCommit(t) ==
    LET r == th[t]
        k == r.usage_new.api_key_hash[2]
        toDetails == r.cost = SearchCost /\ r.videos # <<>>
        p == PendingOf(r.videos, videos)
        r1 == [r EXCEPT !.cost = 0, !.tracked = FALSE,
                        !.spent = IF r.tracked THEN @ + r.cost ELSE @,
                        !.usage_old = NoUsage, !.usage_new = NoUsage]
    IN /\ r.pc = "track"
       /\ ledger' = IF r.tracked THEN CommitUsage(ledger, r.usage_old, r.usage_new)
                    ELSE ledger
       /\ tu' = IF r.tracked THEN [tu EXCEPT !.charged[k] = @ + r.cost] ELSE tu
       /\ th' = [th EXCEPT ![t] =
                   IF toDetails THEN [r1 EXCEPT !.pc = "details"]
                   ELSE [r1 EXCEPT !.pc = "store", !.pending = p,
                                   !.stored_count = StoredCount(p)]]
       /\ UNCHANGED <<now, api_keys, current_key_index, youtube, videos, search_cache,
                      redis_client, redis, ret, fetcher>>

\* lines 163-182: the detail call returns, with or without statistics for the ids
DetailsOk(t, haves) ==
    /\ th[t].pc = "details"
    /\ \E have \in haves :
         th' = [th EXCEPT ![t] =
                  Tracking(t, [th[t] EXCEPT !.inv_calls = @ + 1, !.last_resp = "ok",
                                            !.call_key = youtube[ServiceOf(t)],
                                            !.videos = MergeDetails(@, have)],
                           DetailsCost)]
    /\ UNCHANGED <<now, api_keys, current_key_index, youtube, videos, ledger, search_cache,
                   redis_client, redis, ret, tu, fetcher>>

DetailsQuotaExceeded(t) ==
    /\ th[t].pc = "details"
    /\ OnQuotaExceeded(t, th[t])
    /\ UNCHANGED <<now, api_keys, videos, ledger, search_cache, redis_client, redis, ret, tu,
                fetcher>>

DetailsError(t) ==
    /\ th[t].pc = "details"
    /\ th' = [th EXCEPT ![t] =
                Raise([th[t] EXCEPT !.inv_calls = @ + 1, !.last_resp = "error",
                                    !.call_key = youtube[ServiceOf(t)]], "api_error")]
    /\ UNCHANGED <<now, api_keys, current_key_index, youtube, videos, ledger, search_cache,
                   redis_client, redis, ret, tu, fetcher>>

----------------------------------------------------------------------------
(* HttpError responses and the text tests made on them *)

\* error responses of the remote API: HTTP status, the reason of the error body
\* and its message
HttpErrors ==
    {[status |-> 403, reason |-> "quotaExceeded",
      message |-> "you have exceeded your quota"],
     [status |-> 403, reason |-> "rateLimitExceeded",
      message |-> "Quota exceeded for quota metric"],
     [status |-> 403, reason |-> "forbidden", message |-> "Forbidden"],
     [status |-> 500, reason |-> "backendError", message |-> "Backend Error"]}

\* str(e) of an HttpError for the search of query q:
\* <HttpError {status} when requesting {uri with q} returned "{message}".
\* Details: "{... reason ...}">, as the parts that vary
StrOfHttpError(e, q) == {q, e.message, e.reason}

\* lit in part, for the literals the code searches and the strings of the model
Occurs(lit, part) ==
    CASE lit = "quotaExceeded" -> part = "quotaExceeded"
      [] OTHER -> FALSE

\* lit in part.lower()
OccursLower(lit, part) ==
    CASE lit = "quota" -> part \in {"quotaExceeded", "you have exceeded your quota",
                                    "Quota exceeded for quota metric"}
      [] lit = "exhausted" -> part = "All API keys exhausted"
      [] OTHER -> FALSE

\* line 226: e.resp.status == 403 and 'quotaExceeded' in str(e)
IsQuotaExceeded(e, q) ==
    e.status = 403 /\ \E part \in StrOfHttpError(e, q) : Occurs("quotaExceeded", part)

\* lines 221-234 for the HttpError e raised by a remote call of thread t
OnHttpError(t, r, e) ==
    IF IsQuotaExceeded(e, r.query)
    THEN SwitchAndRetry(t, r, e.reason)
    ELSE /\ th' = [th EXCEPT ![t] =
                     Done([r EXCEPT !.inv_calls = @ + 1, !.last_resp = e.reason,
                                    !.call_key = youtube[ServiceOf(t)]],
                          [NoResult EXCEPT !.outcome = "api_error", !.error = e])]
         /\ UNCHANGED <<current_key_index, youtube>>

\* lines 120-128 raise one of the given HttpErrors
SearchHttpError(t, errors) ==
    /\ th[t].pc = "search"
    /\ \E e \in errors : OnHttpError(t, [th[t] EXCEPT !.attempts = @ + 1], e)
    /\ UNCHANGED <<now, api_keys, videos, ledger, search_cache, redis_client, redis, ret, tu,
                fetcher>>

\* lines 163-166 raise one of the given HttpErrors
DetailsHttpError(t, errors) ==
    /\ th[t].pc = "details"
    /\ \E e \in errors : OnHttpError(t, th[t], e)
    /\ UNCHANGED <<now, api_keys, videos, ledger, search_cache, redis_client, redis, ret, tu,
                fetcher>>

\* db.session.commit() of line 198, then the SearchCache query of line 201
CommitVideos(t) ==
    LET r == th[t]
    IN /\ r.pc = "store"
       /\ NoUniqueViolation(videos, r.pending)
       /\ videos' = ApplyVideos(videos, r.pending, now)
       /\ th' = [th EXCEPT ![t] = [r EXCEPT !.pc = "sc", !.pending = <<>>,
                                            !.sc_row = FirstSearchCache(r.query)]]
       /\ tu' = [tu EXCEPT !.latest =
                   [v \in VideoIds |->
                      IF \E i \in DOMAIN r.pending : r.pending[i].video_id = v
                      THEN LastItem(r.videos, v).title ELSE @[v]]]
       /\ UNCHANGED <<now, api_keys, current_key_index, youtube, ledger, search_cache,
                      redis_client, redis, ret, fetcher>>

\* a commit that would keep the writes that do not conflict and then fail
MutPartialCommit(t) ==
    LET r == th[t]
        ok == SelectSeq(r.pending,
                        LAMBDA p : p.row # 0 \/ RowOf(videos, p.video_id) = 0)
    IN /\ r.pc = "store"
       /\ ~NoUniqueViolation(videos, r.pending)
       /\ videos' = ApplyVideos(videos, ok, now)
       /\ th' = [th EXCEPT ![t] = Raise(r, "db_error")]
       /\ UNCHANGED <<now, api_keys, current_key_index, youtube, ledger,
                      search_cache, redis_client, redis, ret, tu, fetcher>>

\* the same commit when another session inserted one of the ids first: the
\* IntegrityError leaves through the handler of lines 236-238
CommitVideosFails(t) ==
    LET r == th[t]
    IN /\ r.pc = "store"
       /\ ~NoUniqueViolation(videos, r.pending)
       /\ th' = [th EXCEPT ![t] = Raise(r, "db_error")]
       /\ UNCHANGED <<now, api_keys, current_key_index, youtube, videos, ledger,
                      search_cache, redis_client, redis, ret, tu, fetcher>>

\* lines 202-219: the SearchCache commit and the returned dictionary
UpdateSearchCache(t) ==
    LET r == th[t]
        loaded == IF r.sc_row = 0 THEN NoSearchCache ELSE search_cache[r.sc_row]
    IN /\ r.pc = "sc"
       /\ search_cache' = CommitSearchCache(search_cache, r.sc_row, loaded, r.query,
                                            Len(r.videos), r.nextPageToken, now)
       /\ th' = [th EXCEPT ![t] =
                   Done(r, [NoResult EXCEPT !.outcome = "ok", !.items = r.videos,
                                            !.nextPageToken = r.nextPageToken,
                                            !.stored_count = r.stored_count])]
       /\ UNCHANGED <<now, api_keys, current_key_index, youtube, videos, ledger,
                      redis_client, redis, ret, tu, fetcher>>

----------------------------------------------------------------------------
(* Writers of the Redis keyspace: the CacheService methods fetch_videos reads
   from but never calls *)

\* a page of normalized items, as a caller would cache a fetch result
CachedPage == [items |-> <<NormalizedItem("v1")>>]

EnvUnchanged ==
    UNCHANGED <<now, api_keys, current_key_index, youtube, videos, ledger, search_cache,
                redis_client, th, tu, fetcher>>

EnvMarkQueryProcessed ==
    /\ ret.ops < MaxCacheOps
    /\ \E q \in FetchQueries, n \in {0, 1} : redis' = MarkQueryProcessed(q, n)
    /\ ret' = [ret EXCEPT !.ops = @ + 1]
    /\ EnvUnchanged

EnvCacheSearchResults ==
    /\ ret.ops < MaxCacheOps
    /\ \E q \in FetchQueries : redis' = CacheSearchResults(q, CachedPage, FreshHours)
    /\ ret' = [ret EXCEPT !.ops = @ + 1]
    /\ EnvUnchanged

EnvUpdateQuotaUsage ==
    /\ ret.ops < MaxCacheOps
    /\ \E i \in 0..(api_keys - 1) : redis' = UpdateQuotaUsage(i, 1, TRUE)
    /\ ret' = [ret EXCEPT !.ops = @ + 1]
    /\ EnvUnchanged

----------------------------------------------------------------------------------------------------------------------------------------------------
(* Specification Spec: the worker (background_fetcher.py line 56) and a request
   handler (api_routes.py lines 26 and 137) fetch concurrently, each through its
   own YouTubeService, over one database; neither passes a page token *)

Init ==
    /\ now = 0
    /\ api_keys = 1
    /\ current_key_index = [s \in Services |-> 0]
    /\ youtube = [s \in Services |-> IF api_keys > 0 THEN 0 ELSE NoClient]
    /\ videos = <<>>
    /\ ledger = <<>>
    /\ search_cache = <<>>
    /\ redis_client = "conn"
    /\ redis = EmptyRedis
    /\ th = [t \in Threads |-> IdleThread]
    /\ ret = NoRet
    /\ tu = NoTrack
    /\ fetcher = NoFetcher

Next ==
    \/ \E t \in Racers :
         \/ StartFetch(t, {NoToken},
                       IF t = "worker" THEN MaxWorkerFetches ELSE MaxHandlerFetches)
         \/ SearchOk(t, Batches)
         \/ SearchQuotaExceeded(t)
         \/ SearchError(t)
         \/ TrackCommit(t)
         \/ DetailsOk(t, {TRUE})
         \/ DetailsQuotaExceeded(t)
         \/ DetailsError(t)
         \/ CommitVideos(t)
         \/ CommitVideosFails(t)
         \/ UpdateSearchCache(t)
    \/ TickDay

Spec == Init /\ [][Next]_vars

----------------------------------------------------------------------------
(* Specification SpecFetch: one caller of fetch_videos, with or without a page
   token, over a Redis keyspace other clients write to; the pool may be empty *)

Caller == "req"

FetchInit ==
    /\ now = 0
    /\ api_keys \in 0..MaxKeys
    /\ current_key_index = [s \in Services |-> 0]
    /\ youtube = [s \in Services |-> IF api_keys > 0 THEN 0 ELSE NoClient]
    /\ videos = <<>>
    /\ ledger = <<>>
    /\ search_cache = <<>>
    /\ redis_client = "conn"
    /\ redis = EmptyRedis
    /\ th = [t \in Threads |-> IdleThread]
    /\ ret = NoRet
    /\ tu = NoTrack
    /\ fetcher = NoFetcher

FetchNext ==
    \/ StartFetch(Caller, PageTokens, MaxCallerFetches)
    \/ SearchOk(Caller, ShortBatches)
    \/ SearchQuotaExceeded(Caller)
    \/ SearchError(Caller)
    \/ TrackCommit(Caller)
    \/ DetailsOk(Caller, BOOLEAN)
    \/ DetailsQuotaExceeded(Caller)
    \/ DetailsError(Caller)
    \/ CommitVideos(Caller)
    \/ UpdateSearchCache(Caller)
    \/ EnvMarkQueryProcessed
    \/ EnvCacheSearchResults
    \/ EnvUpdateQuotaUsage
    \/ TickHour
    \/ TickDay

SpecFetch == FetchInit /\ [][FetchNext]_vars

----------------------------------------------------------------------------
(* Claims about the store and the ledger under concurrent fetches (Spec) *)

RowsOf(tbl, v) == {i \in DOMAIN tbl : tbl[i].video_id = v}

\* C1: an external id ingested twice with differing fields, by any two fetch
\* cycles that commit to the store, has exactly one row, and the row holds the
\* title of the ingestion that reached the store last.
UpsertKeepsLatest ==
    \A v \in VideoIds :
        /\ Cardinality(RowsOf(videos, v)) <= 1
        /\ tu.latest[v] # "" =>
             /\ RowsOf(videos, v) # {}
             /\ \A i \in RowsOf(videos, v) : videos[i].title = tu.latest[v]

UsageRows(led, k) == SelectSeq(led, LAMBDA u : u.api_key_hash = KeyHash(k))

\* C4: after any interleaving of _track_api_usage calls of the worker and the
\* request handler on one day, a credential has one ledger row and its quota_used
\* is the sum of the costs charged.
NoLostUpdate ==
    Date(now) = 0 =>
        \A k \in 0..(api_keys - 1) :
            /\ Len(UsageRows(ledger, k)) <= 1
            /\ tu.charged[k] > 0 =>
                 /\ Len(UsageRows(ledger, k)) = 1
                 /\ UsageRows(ledger, k)[1].quota_used = tu.charged[k]

----------------------------------------------------------------------------
(* Claims about one fetch_videos call (SpecFetch) *)

\* the step is the caller's call of fetch_videos
Starts(t) == th[t].pc \in {"idle", "done"} /\ tu'.fetches[t] = tu.fetches[t] + 1

\* the step is thread t's commit of a _track_api_usage call
Charges(t) == th[t].pc = "track" /\ th'[t].pc # "track"

\* the step is the handler of a quota-exceeded response re-invoking fetch_videos
Retries(t) == th[t].pc \in {"search", "details"} /\ th'[t].depth = th[t].depth + 1

\* C7: with a pool of 2 credentials, a quota-exceeded response to a call made with
\* the first one makes the service switch to the second (index 1, client rebuilt
\* with it) and re-invoke fetch_videos once for the same query, so a fetch that
\* then completes made exactly 2 search calls; every charge of the re-invocation
\* is added to the second credential's ledger row and the first credential's rows
\* are left as they were.
FailoverToSecondCredential ==
    [][LET t == Caller
           s == ServiceOf(Caller)
       IN /\ (api_keys = 2 /\ Retries(t)) =>
                /\ th[t].depth = 0 /\ th'[t].retry_of = 0
                /\ th'[t].query = th[t].query /\ th'[t].page_token = th[t].page_token
                /\ youtube'[s] = 1
          /\ (api_keys = 2 /\ th'[t].retry_of = 0) =>
                /\ th'[t].depth = 1
                /\ youtube'[s] = 1
                /\ th'[t].pc # "done" => current_key_index'[s] = 1
                /\ (th'[t].pc = "done" /\ th'[t].last_resp = "ok") =>
                      /\ th'[t].result.outcome = "ok"
                      /\ th'[t].attempts = 2
                      /\ th'[t].call_key = 1
          /\ (api_keys = 2 /\ th[t].retry_of = 0 /\ Charges(t)) =>
                /\ UsageRows(ledger', 0) = UsageRows(ledger, 0)
                /\ tu'.charged[0] = tu.charged[0]
                /\ tu'.charged[1] = tu.charged[1] + th[t].cost
                /\ Len(UsageRows(ledger', 1)) = 1
                /\ UsageRows(ledger', 1)[1].quota_used >= th[t].cost]_vars

\* a fetch completed by the retry on the second credential, with items stored
FailoverToSecondCredentialWitness ==
    /\ api_keys = 2
    /\ th[Caller].pc = "done" /\ th[Caller].retry_of = 0
    /\ th[Caller].result.outcome = "ok" /\ th[Caller].result.items # <<>>
    /\ th[Caller].attempts = 2
    /\ tu.charged[1] > 0

\* C8: within one fetch call the remote search is attempted at most once per
\* credential of the pool and the recursion is at most one invocation per
\* credential deep; a fetch that ends after a quota-exceeded response ends with a
\* result or with the "All API keys exhausted" failure.
BoundedAttempts ==
    \A t \in Threads :
        /\ th[t].attempts <= api_keys
        /\ th[t].depth <= th[t].attempts
        /\ api_keys > 0 => th[t].depth < api_keys
        /\ (th[t].pc = "done" /\ th[t].last_resp = "quotaExceeded") =>
              th[t].result.outcome \in {"ok", "exhausted"}

\* every credential of a pool of 2 answered quota-exceeded and the fetch gave up
BoundedAttemptsWitness ==
    /\ api_keys = 2
    /\ th[Caller].pc = "done" /\ th[Caller].result.outcome = "exhausted"
    /\ th[Caller].last_resp = "quotaExceeded"
    /\ th[Caller].attempts = 2 /\ th[Caller].depth = 1

\* the call is a first-page fetch of a query whose skip marker is set
SkipCase(t) ==
    /\ Starts(t)
    /\ th'[t].page_token = NoToken
    /\ ShouldSkipQuery(th'[t].query, DefaultSkipHours)

\* the call returns the skipped result at once and writes nothing
SkipEffect(t) ==
    /\ th'[t].pc = "done"
    /\ th'[t].result = SkippedResult
    /\ th'[t].result.items = <<>> /\ th'[t].result.skipped
    /\ th'[t].inv_calls = 0 /\ th'[t].attempts = 0
    /\ videos' = videos /\ search_cache' = search_cache /\ ledger' = ledger
    /\ tu'.charged = tu.charged

\* C9 as stated: a first-page fetch for a query whose skip marker is set returns
\* an empty result flagged as skipped, issues no remote call, charges no quota and
\* leaves the Video, SearchCache and APIKeyUsage tables unchanged.
SkipMarkerFetchAnyPool == [][SkipCase(Caller) => SkipEffect(Caller)]_vars

\* C9, amended: the same, for a service whose client is initialised (its pool was
\* not empty at construction); with an empty pool the call raises before it
\* looks at the marker.
SkipMarkerFetch ==
    [][(SkipCase(Caller) /\ youtube[ServiceOf(Caller)] # NoClient) => SkipEffect(Caller)]_vars

\* a fetch was skipped although the store holds rows of an earlier fetch
SkipMarkerFetchWitness ==
    /\ th[Caller].pc = "done" /\ th[Caller].result.skipped
    /\ youtube[ServiceOf(Caller)] # NoClient
    /\ videos # <<>> /\ ledger # <<>> /\ search_cache # <<>>

\* the call is a first-page fetch that looks the query up in the search cache
\* and finds an entry
CacheHit(t) ==
    /\ Starts(t)
    /\ youtube[ServiceOf(t)] # NoClient
    /\ th'[t].page_token = NoToken
    /\ ~ShouldSkipQuery(th'[t].query, DefaultSkipHours)
    /\ GetCachedSearchResults(th'[t].query) # None

\* C10: a first-page fetch that hits a fresh search cache entry returns the
\* entry's items flagged as cached, issues no remote call, neither reads the quota
\* mirror nor charges the ledger, and keeps the active credential; an invocation
\* with a page token consults neither the skip marker nor the search cache.
CacheHitFetch ==
    [][LET t == Caller
           s == ServiceOf(Caller)
       IN /\ CacheHit(t) =>
                /\ th'[t].pc = "done"
                /\ th'[t].result.outcome = "ok"
                /\ th'[t].result.cached /\ ~th'[t].result.skipped
                /\ th'[t].result.items = GetCachedSearchResults(th'[t].query)[1].items
                /\ th'[t].inv_calls = 0 /\ th'[t].attempts = 0
                /\ "quota" \notin th'[t].looked
                /\ ledger' = ledger /\ tu'.charged = tu.charged
                /\ current_key_index' = current_key_index /\ youtube' = youtube
          /\ th'[t].page_token # NoToken =>
                th'[t].looked \cap {"skip", "search"} = {}]_vars

\* a fetch was answered from the cache
CacheHitFetchWitness ==
    /\ th[Caller].pc = "done"
    /\ th[Caller].result.cached /\ ~th[Caller].result.skipped
    /\ th[Caller].result.items # <<>>
    /\ th[Caller].looked = {"skip", "search"}

----------------------------------------------------------------------------
(* Specification SpecStore: the worker and a request handler each run one fetch
   cycle over pages of two distinct ids, so that a commit of several rows can
   meet a row the other session inserted first *)

MaxStoreFetches == 1     \* fetch_videos calls of each thread

\* items of two distinct ids
StoreItems ==
    {[video_id |-> "v1", title |-> "t1"], [video_id |-> "v2", title |-> "t1"]}

StoreBatches == UNION {[1..n -> StoreItems] : n \in 0..MaxBatch}

StoreNext ==
    \E t \in Racers :
        \/ StartFetch(t, {NoToken}, MaxStoreFetches)
        \/ SearchOk(t, StoreBatches)
        \/ TrackCommit(t)
        \/ DetailsOk(t, {TRUE})
        \/ DetailsError(t)
        \/ CommitVideos(t)
        \/ CommitVideosFails(t)
        \/ UpdateSearchCache(t)

SpecStore == Init /\ [][StoreNext]_vars

----------------------------------------------------------------------------
(* Specification SpecErrors: one caller of fetch_videos whose remote calls may
   raise any of the HttpErrors, for queries one of which contains the literal
   the handler of line 226 searches for *)

MaxErrFetches == 2       \* fetch_videos calls of the caller

ErrQueries == {"a", "quotaExceeded"}

ErrNext ==
    \/ StartFetchOf(Caller, ErrQueries, {NoToken}, MaxErrFetches)
    \/ SearchOk(Caller, ShortBatches)
    \/ SearchHttpError(Caller, HttpErrors)
    \/ TrackCommit(Caller)
    \/ DetailsOk(Caller, {TRUE})
    \/ DetailsHttpError(Caller, HttpErrors)
    \/ CommitVideos(Caller)
    \/ UpdateSearchCache(Caller)

SpecErrors == FetchInit /\ [][ErrNext]_vars

\* the step is the answer e of the remote API to a call of thread t
Answers(t, e) ==
    /\ th[t].pc \in {"search", "details"}
    /\ th'[t] # th[t]
    /\ th'[t].last_resp = e.reason

\* C17: a remote error other than HTTP 403 with reason quotaExceeded ends the
\* fetch with the "YouTube API error" failure in the same step: no retry, no
\* switch (active index and client unchanged), and when it answers the first
\* remote call of the fetch exactly one remote attempt was made.
NonQuotaErrorSurfaced ==
    [][\A e \in HttpErrors :
          (Answers(Caller, e) /\ ~(e.status = 403 /\ e.reason = "quotaExceeded")) =>
             /\ th'[Caller].pc = "done"
             /\ th'[Caller].result.outcome = "api_error"
             /\ th'[Caller].depth = th[Caller].depth
             /\ current_key_index' = current_key_index
             /\ youtube' = youtube
             /\ (th[Caller].depth = 0 /\ th[Caller].pc = "search") =>
                   th'[Caller].attempts = 1]_vars

\* C19: a fetch that completes through the remote API has charged 100 units for
\* the search call plus 1 unit per id requested from the detail call: 100 + n
\* for a result of n items, and the commits of the store charge nothing.
ChargePerCycle ==
    \A t \in Threads :
        (th[t].pc = "done" /\ th[t].result.outcome = "ok" /\ ~th[t].result.cached) =>
            th[t].spent = SearchCost + Len(th[t].result.items) * DetailsCost

\* whether credential k is marked exhausted for the day of hour t, in the quota
\* mirror rd or in the ledger led
MarkedExhausted(rd, led, k, t) ==
    \/ /\ <<k, Date(t)>> \in DOMAIN rd.quota
       /\ rd.quota[<<k, Date(t)>>].quota_exhausted
    \/ \E i \in DOMAIN led :
          led[i].api_key_hash = KeyHash(k) /\ led[i].is_exhausted

\* C20: when a remote call is answered with HTTP 403 quotaExceeded, the
\* credential the call was made with is marked exhausted, in the ledger or in
\* the quota mirror, by the time the handler has switched credentials, so that a
\* quota check for it on the same day sees it exhausted.
ExhaustedMarkedOnQuotaError ==
    [][(/\ th[Caller].pc \in {"search", "details"}
        /\ th'[Caller] # th[Caller]
        /\ th'[Caller].last_resp = "quotaExceeded") =>
           MarkedExhausted(redis', ledger', th'[Caller].call_key, now)]_vars

----------------------------------------------------------------------------
(* Specification SpecOutage: one caller of fetch_videos over a Redis server that
   may be unreachable from the start (no client) or become unreachable *)

MaxOutageFetches == 1    \* fetch_videos calls of the caller

OutageInit ==
    /\ now = 0
    /\ api_keys \in 1..MaxKeys
    /\ current_key_index = [s \in Services |-> 0]
    /\ youtube = [s \in Services |-> 0]
    /\ videos = <<>>
    /\ ledger = <<>>
    /\ search_cache = <<>>
    /\ redis_client \in {"conn", "None"}
    /\ redis = EmptyRedis
    /\ th = [t \in Threads |-> IdleThread]
    /\ ret = NoRet
    /\ tu = NoTrack
    /\ fetcher = NoFetcher

OutageNext ==
    \/ StartFetch(Caller, PageTokens, MaxOutageFetches)
    \/ SearchOk(Caller, ShortBatches)
    \/ SearchQuotaExceeded(Caller)
    \/ TrackCommit(Caller)
    \/ DetailsOk(Caller, {TRUE})
    \/ CommitVideos(Caller)
    \/ UpdateSearchCache(Caller)
    \/ EnvMarkQueryProcessed
    \/ EnvCacheSearchResults
    \/ EnvUpdateQuotaUsage
    \/ RedisOutage

SpecOutage == OutageInit /\ [][OutageNext]_vars

\* C16: while the Redis server cannot be reached (or no client was built) every
\* cache read returns its miss value (no cached page, no skip, the default
\* quota entry) and every cache write leaves the keyspace as it was, none of
\* them raising; a fetch started then consults the caches, switches no
\* credential and goes on to the remote search call, as with an empty cache.
CacheErrorsAbsorbed ==
    [][/\ ~Reachable =>
            /\ \A q \in FetchQueries :
                  /\ GetCachedSearchResults(q) = None
                  /\ ~ShouldSkipQuery(q, DefaultSkipHours)
            /\ \A i \in 0..MaxKeys :
                  GetQuotaUsage(i) = [calls_today |-> 0, quota_exhausted |-> FALSE]
       /\ (~Reachable /\ ret'.ops = ret.ops + 1) => redis' = redis
       /\ (~Reachable /\ Starts(Caller)) =>
            /\ th'[Caller].pc = "search"
            /\ th'[Caller].looked =
                 (IF th'[Caller].page_token = NoToken THEN {"skip", "search"} ELSE {})
                    \cup {"quota"}
            /\ current_key_index' = current_key_index
            /\ youtube' = youtube]_vars

\* the server is unreachable while it holds a skip marker for the fetch's query
\* and an exhausted quota entry for its credential, and the first-page fetch is
\* at its remote search call
CacheErrorsAbsorbedWitness ==
    /\ redis_client = "conn" /\ ~RedisReachable
    /\ th[Caller].pc = "search" /\ th[Caller].page_token = NoToken
    /\ th[Caller].query \in DOMAIN redis.skip
    /\ redis.skip[th[Caller].query].new_videos = 0
    /\ <<0, Date(now)>> \in DOMAIN redis.quota
    /\ current_key_index[ServiceOf(Caller)] = 0

----------------------------------------------------------------------------
(* Specification SpecKeys: cache key derivation applied to extra parameters and
   to id lists given in any order *)

MaxParams == 3           \* extra keyword parameters of one _get_cache_key call
MaxIds == 3              \* ids of one video-details key

ParamNames == {"a", "b", "c"}
ParamValues == {1, 2}

\* **kwargs as passed: <<name, value>> pairs of distinct names, in call order
Kwargs ==
    {kw \in UNION {[1..n -> ParamNames \X ParamValues] : n \in 0..MaxParams} :
        \A i, j \in DOMAIN kw : kw[i][1] = kw[j][1] => i = j}

\* the id list passed to cache_video_details / get_cached_video_details
IdLists == UNION {[1..n -> VideoIds] : n \in 0..MaxIds}

\* the order of Python's string comparison on the names and ids of the model
Rank(str) ==
    CASE str \in {"a", "v1"} -> 1
      [] str \in {"b", "v2"} -> 2
      [] OTHER -> 3

MutUnsorted(kwargs) == kwargs

\* sorted(kwargs.items()), line 28
SortedItems(kwargs) == SortSeq(kwargs, LAMBDA x, y : Rank(x[1]) < Rank(y[1]))

\* hashlib.md5(key_data.encode()).hexdigest()[:8], line 29, of the key_data
\* f"{query}:{k1}={v1}:{k2}={v2}..." given as <<query, items>>: a function of
\* the string
Md5Of(key_data) == <<"md5", key_data>>

\* _get_cache_key(prefix, query, **kwargs), lines 26-30
GetCacheKeyWith(prefix, query, kwargs) ==
    <<prefix, Md5Of(<<query, SortedItems(kwargs)>>)>>

\* ",".join(sorted(video_ids)), the string given as the sequence of its ids
JoinSorted(video_ids) == SortSeq(video_ids, LAMBDA x, y : Rank(x) < Rank(y))

\* _get_cache_key("videos", ",".join(sorted(video_ids))), lines 85 and 108
VideoDetailsKey(video_ids) == GetCacheKeyWith("videos", JoinSorted(video_ids), <<>>)

KeysInit ==
    /\ now = 0
    /\ api_keys = 1
    /\ current_key_index = [s \in Services |-> 0]
    /\ youtube = [s \in Services |-> 0]
    /\ videos = <<>>
    /\ ledger = <<>>
    /\ search_cache = <<>>
    /\ redis_client = "conn"
    /\ redis = EmptyRedis
    /\ th = [t \in Threads |-> IdleThread]
    /\ ret = NoRet
    /\ tu = NoTrack
    /\ fetcher = NoFetcher

\* one call of _get_cache_key with extra parameters
DeriveCacheKey ==
    /\ \E q \in Queries, kw \in Kwargs :
         ret' = [NoRet EXCEPT !.op = "cache_key", !.query = q, !.arg = kw,
                              !.val = GetCacheKeyWith("search", q, kw)]
    /\ UNCHANGED <<now, api_keys, current_key_index, youtube, videos, ledger,
                   search_cache, redis_client, redis, th, tu, fetcher>>

\* one derivation of the video-details key
DeriveDetailsKey ==
    /\ \E ids \in IdLists :
         ret' = [NoRet EXCEPT !.op = "details_key", !.arg = ids,
                              !.val = VideoDetailsKey(ids)]
    /\ UNCHANGED <<now, api_keys, current_key_index, youtube, videos, ledger,
                   search_cache, redis_client, redis, th, tu, fetcher>>

KeysNext == DeriveCacheKey \/ DeriveDetailsKey

SpecKeys == KeysInit /\ [][KeysNext]_vars

\* s and t hold the same elements the same number of times
IsReordering(s, t) ==
    /\ Len(s) = Len(t)
    /\ \A x \in {s[i] : i \in DOMAIN s} :
          Cardinality({i \in DOMAIN s : s[i] = x}) =
          Cardinality({i \in DOMAIN t : t[i] = x})

\* C18: the key derived for a namespace, a query and extra parameters is the
\* key derived for the same parameters passed in any other order, and the
\* video-details key of an id list is the key of every reordering of the list.
KeyOrderIndependent ==
    /\ ret.op = "cache_key" =>
          \A kw \in Kwargs :
              IsReordering(kw, ret.arg) =>
                  GetCacheKeyWith("search", ret.query, kw) = ret.val
    /\ ret.op = "details_key" =>
          \A ids \in IdLists :
              IsReordering(ids, ret.arg) => VideoDetailsKey(ids) = ret.val

\* the key derived for b=2, a=1 in that order is the key of a=1, b=2
KeyOrderIndependentWitness ==
    /\ ret.op = "cache_key"
    /\ ret.arg = <<<<"b", 2>>, <<"a", 1>>>>
    /\ ret.val = GetCacheKeyWith("search", ret.query, <<<<"a", 1>>, <<"b", 2>>>>)
    /\ ret.val # GetCacheKeyWith("search", ret.query, <<<<"a", 2>>, <<"b", 1>>>>)

----------------------------------------------------------------------------
(* BackgroundVideoFetcher: start(), stop() and the worker's _fetch_loop *)

Rotation == <<"a", "b", "c">>    \* self.search_queries
FetchInterval == 10       \* seconds, background_fetcher.py:176
ExhaustedBackoff == 3600  \* seconds, background_fetcher.py:71
MaxIterations == 4        \* loop iterations of all workers together

\* the thread that runs worker i's fetch_videos calls
ThreadOf(i) == IF i = 1 THEN "worker" ELSE "worker2"

SchedUnchanged ==
    UNCHANGED <<now, api_keys, current_key_index, youtube, videos, ledger, search_cache,
                redis_client, redis, th, ret, tu>>

MutFirstQuery(queries, query_index) == queries[1]

\* line 50: self.search_queries[query_index % len(self.search_queries)]
CurrentQuery(queries, query_index) == queries[(query_index % Len(queries)) + 1]

\* str(e) of the exception a failed fetch_videos(q) raised, as its parts
ExceptionText(res, q) ==
    CASE res.outcome = "exhausted" -> {"All API keys exhausted"}
      [] res.outcome = "not_initialized" -> {"YouTube API client not initialized"}
      [] res.outcome = "api_error" -> {"YouTube API error"} \cup StrOfHttpError(res.error, q)
      [] OTHER -> {"UNIQUE constraint failed: video.video_id"}

\* lines 67-68: "exhausted" in error_msg or "quota" in error_msg
IsExhaustionText(text) ==
    \E part \in text : OccursLower("exhausted", part) \/ OccursLower("quota", part)

MutFallThrough(res, q) ==
    IF res.outcome # "ok" /\ IsExhaustionText(ExceptionText(res, q))
    THEN <<ExhaustedBackoff, FetchInterval>>
    ELSE <<FetchInterval>>

\* lines 66-77: the sleeps between the end of a fetch and the next loop test:
\* one hour and continue, or the fetch interval
SleepsAfter(res, q) ==
    IF res.outcome # "ok" /\ IsExhaustionText(ExceptionText(res, q))
    THEN <<ExhaustedBackoff>>
    ELSE <<FetchInterval>>

\* lines 45-51: the loop test, then the query of the iteration and the cursor
LoopHead(i, max) ==
    LET w == fetcher.w[i]
    IN /\ w.pc = "head"
       /\ IF fetcher.running
          THEN /\ tu.fetches["worker"] + tu.fetches["worker2"] < max
               /\ tu.fetches[ThreadOf(i)] = w.query_index
               /\ fetcher' = [fetcher EXCEPT !.w[i] =
                     [w EXCEPT !.pc = "call",
                               !.current_query = CurrentQuery(Rotation, w.query_index),
                               !.query_index = @ + 1]]
          ELSE fetcher' = [fetcher EXCEPT !.w[i] = [NoWorker EXCEPT !.pc = "exit"]]
       /\ SchedUnchanged

\* lines 56-59: the worker calls fetch_videos(query=current_query)
LoopCall(i, max) ==
    /\ fetcher.w[i].pc = "call"
    /\ tu.fetches[ThreadOf(i)] < fetcher.w[i].query_index
    /\ StartFetchOf(ThreadOf(i), {fetcher.w[i].current_query}, {NoToken}, max)

\* lines 61-74: the call has returned or raised; the handler picks the sleep
LoopResult(i) ==
    LET w == fetcher.w[i]
        t == ThreadOf(i)
        res == th[t].result
    IN /\ w.pc = "call"
       /\ tu.fetches[t] = w.query_index
       /\ th[t].pc = "done"
       /\ fetcher' = [fetcher EXCEPT !.w[i] =
             [w EXCEPT !.pc = "sleep",
                       !.sleeps = SleepsAfter(res, w.current_query),
                       !.log = Append(@, [query |-> w.current_query,
                                          outcome |-> res.outcome,
                                          reason |-> res.error.reason,
                                          slept |-> SleepsAfter(res, w.current_query)])]]
       /\ SchedUnchanged

\* a time.sleep of line 71 or line 77 ends
LoopWake(i) ==
    LET w == fetcher.w[i]
    IN /\ w.pc = "sleep"
       /\ fetcher' = [fetcher EXCEPT !.w[i] =
             [w EXCEPT !.sleeps = Tail(@),
                       !.pc = IF Tail(w.sleeps) = <<>> THEN "head" ELSE "sleep"]]
       /\ SchedUnchanged

\* workers not yet created, and callers of start() that will create one
Unborn == {i \in WorkerIds : fetcher.w[i].pc = "unborn"}
Spawning == {c \in Controllers : fetcher.ctl[c].pc \in {"start_set", "start_spawn"}}

\* start(), lines 25-27: the test of self.running
StartCall(c) ==
    /\ fetcher.ctl[c].pc = "idle"
    /\ Cardinality(Spawning) < Cardinality(Unborn)
    /\ fetcher' = IF fetcher.running THEN fetcher
                  ELSE [fetcher EXCEPT !.ctl[c].pc = "start_set"]
    /\ SchedUnchanged

\* line 29
StartSet(c) ==
    /\ fetcher.ctl[c].pc = "start_set"
    /\ fetcher' = [fetcher EXCEPT !.running = TRUE, !.ctl[c].pc = "start_spawn"]
    /\ SchedUnchanged

\* lines 30-31: the thread is created and started with query_index = 0 (line 43)
StartSpawn(c) ==
    /\ fetcher.ctl[c].pc = "start_spawn"
    /\ LET i == CHOOSE j \in Unborn : \A k \in Unborn : j <= k
       IN fetcher' = [fetcher EXCEPT !.thread = i, !.ctl[c].pc = "idle",
                                     !.w[i] = [NoWorker EXCEPT !.pc = "head"]]
    /\ SchedUnchanged

\* worker i has been created and has not terminated
Alive(i) == fetcher.w[i].pc \notin {"unborn", "exit"}

\* stop(), line 36
StopCall(c) ==
    /\ fetcher.ctl[c].pc = "idle"
    /\ fetcher' = [fetcher EXCEPT !.running = FALSE,
                                  !.ctl[c] = [pc |-> "stop_join", target |-> 0,
                                              saw |-> {i \in WorkerIds : Alive(i)}]]
    /\ SchedUnchanged

\* lines 37-38: join the thread self.thread refers to, if any
StopJoin(c) ==
    /\ fetcher.ctl[c].pc = "stop_join"
    /\ fetcher' = IF fetcher.thread = 0
                  THEN [fetcher EXCEPT !.ctl[c].pc = "idle"]
                  ELSE [fetcher EXCEPT !.ctl[c].pc = "joining",
                                       !.ctl[c].target = fetcher.thread]
    /\ SchedUnchanged

\* the join returns once that thread has terminated
StopReturn(c) ==
    /\ fetcher.ctl[c].pc = "joining"
    /\ fetcher.w[fetcher.ctl[c].target].pc = "exit"
    /\ fetcher' = [fetcher EXCEPT !.ctl[c].pc = "idle", !.ctl[c].target = 0]
    /\ SchedUnchanged

\* the search pages the scheduler's fetches receive
SchedBatches == {<<>>}

\* the steps of worker i and of its fetch_videos calls, for at most max
\* iterations of all workers and remote errors among the given ones
WorkerSteps(i, max, errors) ==
    \/ LoopHead(i, max)
    \/ LoopCall(i, max)
    \/ LoopResult(i)
    \/ LoopWake(i)
    \/ SearchOk(ThreadOf(i), SchedBatches)
    \/ SearchHttpError(ThreadOf(i), errors)
    \/ TrackCommit(ThreadOf(i))
    \/ CommitVideos(ThreadOf(i))
    \/ UpdateSearchCache(ThreadOf(i))

WorkerNext(i) == WorkerSteps(i, MaxIterations, HttpErrors)

\* the steps of a caller of start() and stop()
ControlNext(c) ==
    \/ StartCall(c)
    \/ StartSet(c)
    \/ StartSpawn(c)
    \/ StopCall(c)
    \/ StopJoin(c)
    \/ StopReturn(c)

----------------------------------------------------------------------------
(* Specification SpecSched: the scheduler driven by one caller (app.py line 63
   starts it), which may stop it and start it again *)

SchedNext ==
    \/ \E i \in WorkerIds : WorkerNext(i)
    \/ ControlNext("main")

SpecSched == Init /\ [][SchedNext]_vars

\* C12: a worker passes the queries of the rotation list to fetch_videos in
\* list order, wrapping round (the 4th query of <<a, b, c>> is a again), and
\* its cursor has advanced by exactly one for every iteration begun, whatever
\* the outcome of the fetches.
RoundRobin ==
    \A i \in WorkerIds :
        LET w == fetcher.w[i]
            t == ThreadOf(i)
        IN /\ \A k \in DOMAIN w.log :
                 w.log[k].query = Rotation[((k - 1) % Len(Rotation)) + 1]
           /\ w.pc \in {"head", "sleep"} => w.query_index = Len(w.log)
           /\ w.pc = "call" =>
                 /\ w.query_index = Len(w.log) + 1
                 /\ w.current_query = Rotation[(Len(w.log) % Len(Rotation)) + 1]
                 /\ tu.fetches[t] = w.query_index => th[t].query = w.current_query

\* four iterations of one worker, some failed and some not: a, b, c, a
RoundRobinWitness ==
    \E i \in WorkerIds :
        LET log == fetcher.w[i].log
        IN /\ Len(log) = 4
           /\ <<log[1].query, log[2].query, log[3].query, log[4].query>>
                 = <<"a", "b", "c", "a">>
           /\ \E k \in 1..3 : log[k].outcome = "ok"
           /\ \E k \in 1..3 : log[k].outcome # "ok"

\* C13: after a fetch that failed with "All API keys exhausted" the worker
\* sleeps the long backoff and nothing else before its next loop test, and its
\* next iteration fetches the query that follows the failed one in the rotation.
ExhaustedBackoffOnly ==
    \A i \in WorkerIds :
        LET w == fetcher.w[i]
        IN \A k \in DOMAIN w.log :
              w.log[k].outcome = "exhausted" =>
                 /\ w.log[k].slept = <<ExhaustedBackoff>>
                 /\ (k = Len(w.log) /\ w.pc = "sleep") => w.sleeps = <<ExhaustedBackoff>>
                 /\ k < Len(w.log) =>
                       \E n \in DOMAIN Rotation :
                           /\ w.log[k].query = Rotation[n]
                           /\ w.log[k + 1].query = Rotation[(n % Len(Rotation)) + 1]

\* an exhausted fetch of "a" was followed by the long backoff and then by "b"
ExhaustedBackoffOnlyWitness ==
    \E i \in WorkerIds :
        LET log == fetcher.w[i].log
        IN /\ Len(log) >= 2
           /\ log[1].outcome = "exhausted" /\ log[1].query = "a"
           /\ log[1].slept = <<ExhaustedBackoff>>
           /\ log[2].query = "b"

\* C14: no failure of fetch_videos ends the worker (while the fetcher is running
\* and no start or stop is in progress, its thread has not exited), and a
\* failure other than "All API keys exhausted" is followed by the fetch interval,
\* never by the long backoff.
FailureNeverStopsRotation ==
    /\ \A i \in WorkerIds :
          (/\ fetcher.running
           /\ fetcher.thread = i
           /\ \A c \in Controllers : fetcher.ctl[c].pc = "idle") =>
              fetcher.w[i].pc \notin {"exit", "unborn"}
    /\ \A i \in WorkerIds :
          LET w == fetcher.w[i]
          IN \A k \in DOMAIN w.log :
                w.log[k].outcome \notin {"ok", "exhausted"} =>
                    w.log[k].slept = <<FetchInterval>>

----------------------------------------------------------------------------
(* Specification SpecLifecycle: start() and stop() called from two threads, the
   workers and the callers in progress scheduled fairly *)

MaxLifeIterations == 2    \* loop iterations of all workers together

\* the remote errors of this specification: the daily quota is used up
LifeErrors == {e \in HttpErrors : e.reason = "quotaExceeded"}

LifeWorkerNext(i) == WorkerSteps(i, MaxLifeIterations, LifeErrors)

LifeNext ==
    \/ \E i \in WorkerIds : LifeWorkerNext(i)
    \/ \E c \in Controllers : ControlNext(c)

\* a caller that has entered start() or stop() goes on with it
Proceeds(c) == StartSet(c) \/ StartSpawn(c) \/ StopJoin(c) \/ StopReturn(c)

SpecLifecycle ==
    /\ Init
    /\ [][LifeNext]_vars
    /\ \A i \in WorkerIds : WF_vars(LifeWorkerNext(i))
    /\ \A c \in Controllers : WF_vars(Proceeds(c))

\* C15: stop() does not interrupt a fetch in flight; a worker that has seen the
\* signal at its loop test runs no further iteration; stop() returns only when
\* the workers that were alive at its signal have terminated; and every worker
\* alive when stop() has given the signal eventually terminates.
GracefulStop ==
    /\ [][/\ \A c \in Controllers :
               (fetcher.ctl[c].pc = "idle" /\ fetcher'.ctl[c].pc = "stop_join") =>
                   th' = th
          /\ \A c \in Controllers :
               (fetcher.ctl[c].pc = "joining" /\ fetcher'.ctl[c].pc = "idle") =>
                   \A i \in fetcher.ctl[c].saw : ~Alive(i)
          /\ \A i \in WorkerIds :
               fetcher.w[i].pc = "exit" =>
                   /\ fetcher'.w[i].pc = "exit"
                   /\ th'[ThreadOf(i)] = th[ThreadOf(i)]]_vars
    /\ \A c \in Controllers, i \in WorkerIds :
          (fetcher.ctl[c].pc = "stop_join" /\ Alive(i)) ~> ~Alive(i)

----------------------------------------------------------------------------
(* Claims about what a completed fetch leaves behind (SpecFetch) *)

\* the step completes a first-page fetch of thread t through the remote API
CompletesFirstPage(t) ==
    /\ th[t].pc = "sc" /\ th'[t].pc = "done"
    /\ th'[t].result.outcome = "ok" /\ ~th'[t].result.cached
    /\ th'[t].page_token = NoToken

\* thread t, holding the result of a first-page fetch that went through the
\* remote API less than 2 hours ago (the time is the one the cycle wrote to its
\* SearchCache row), calls fetch_videos for the first page of the same query
RepeatsFirstPage(t) ==
    /\ Starts(t)
    /\ th[t].pc = "done" /\ th[t].result.outcome = "ok" /\ ~th[t].result.cached
    /\ th[t].page_token = NoToken
    /\ th'[t].query = th[t].query /\ th'[t].page_token = NoToken
    /\ FirstSearchCache(th[t].query) # 0
    /\ now < search_cache[FirstSearchCache(th[t].query)].last_fetched + FreshHours

\* C21: when a first-page fetch that reached the remote API completes, the
\* search-result cache holds the returned items under the query, and a first-page
\* fetch for the same query that follows within 2 hours returns at once without
\* a remote call.
FetchFillsSearchCache ==
    [][LET t == Caller
       IN /\ CompletesFirstPage(t) =>
                /\ GetCachedSearchResults(th[t].query)' # None
                /\ GetCachedSearchResults(th[t].query)'[1].items = th'[t].result.items
          /\ RepeatsFirstPage(t) =>
                /\ th'[t].pc = "done"
                /\ th'[t].result.cached
                /\ th'[t].inv_calls = 0]_vars

----------------------------------------------------------------------------
(* Claims about the credential pool (SpecFetch) *)

\* the active index an invocation of fetch_videos begun by this step starts
\* with: the current one for a call, the next one for the handler's retry
EntryIndex(t) ==
    IF Retries(t) THEN IndexAfterSwitch(current_key_index[ServiceOf(t)])
    ELSE current_key_index[ServiceOf(t)]

\* the step begins an invocation that reads the quota mirror at line 110 and
\* finds the active credential marked exhausted
FindsActiveExhausted(t) ==
    /\ Starts(t) \/ Retries(t)
    /\ "quota" \in th'[t].looked
    /\ GetQuotaUsage(EntryIndex(t)).quota_exhausted

\* C22: an invocation that finds the active credential marked exhausted in the
\* quota mirror, before its remote call, advances the active index by one; when
\* a credential is at the new index the client is rebuilt with it and the
\* invocation goes on to the search call, otherwise it raises "All API keys
\* exhausted" having issued no remote call.
MirrorExhaustedSwitches ==
    [][LET t == Caller
           s == ServiceOf(Caller)
       IN FindsActiveExhausted(t) =>
            /\ current_key_index'[s] = EntryIndex(t) + 1
            /\ IF EntryIndex(t) + 1 < api_keys
               THEN /\ youtube'[s] = EntryIndex(t) + 1
                    /\ th'[t].pc = "search"
                    /\ th'[t].inv_calls = 0
               ELSE /\ th'[t].pc = "done"
                    /\ th'[t].result.outcome = "exhausted"
                    /\ th'[t].inv_calls = 0
                    /\ Starts(t) => th'[t].attempts = 0
                    /\ youtube'[s] = IF Retries(t) THEN EntryIndex(t)
                                     ELSE youtube[s]]_vars

\* with 2 credentials: a fetch found the first one marked, switched and stored
\* items through the second; the next fetch found the second one marked and
\* failed without a remote call
MirrorExhaustedSwitchesWitness ==
    /\ api_keys = 2
    /\ th[Caller].pc = "done" /\ th[Caller].result.outcome = "exhausted"
    /\ th[Caller].attempts = 0 /\ th[Caller].depth = 0
    /\ "quota" \in th[Caller].looked
    /\ current_key_index[ServiceOf(Caller)] = 2
    /\ tu.charged[1] > 0 /\ tu.charged[0] = 0
    /\ videos # <<>>

\* no credential is at the active index of service s
PoolUnavailable(s) == api_keys = 0 \/ current_key_index[s] >= api_keys

\* the step is a remote call of thread t being answered
RemoteCall(t) == th[t].pc \in {"search", "details"} /\ th'[t] # th[t]

\* C23: a fetch called while no credential is available (empty pool, or active
\* index past the end of the list) that is answered neither by the skip marker
\* nor by the search cache fails without a remote call, and every remote call is
\* made with a client built for the credential at the active index.
NoCallWithoutCredential ==
    [][LET t == Caller
           s == ServiceOf(Caller)
       IN /\ (Starts(t) /\ PoolUnavailable(s)) =>
                \/ th'[t].pc = "done" /\ th'[t].result.outcome = "ok"
                                      /\ th'[t].result.cached
                \/ th'[t].pc = "done" /\ th'[t].result.outcome # "ok"
                                      /\ th'[t].inv_calls = 0
          /\ RemoteCall(t) =>
                /\ ~PoolUnavailable(s)
                /\ youtube[s] = current_key_index[s]]_vars

\* the number of _switch_api_key calls thread t makes in the step: one by the
\* handler of a quota-exceeded response, one by an invocation that finds the
\* active credential marked exhausted
SwitchCalls(t) ==
    (IF RemoteCall(t) /\ th'[t].last_resp = "quotaExceeded" THEN 1 ELSE 0)
    + (IF FindsActiveExhausted(t) THEN 1 ELSE 0)

\* C24: _switch_api_key never wraps around: the active index never decreases,
\* each call advances it by one, a pool whose switch has failed stays unavailable
\* for the rest of the day, and a non-empty pool is available again once the day
\* has changed.
SwitchNeverWraps ==
    [][LET s == ServiceOf(Caller)
       IN /\ current_key_index'[s] >= current_key_index[s]
          /\ Date(now') = Date(now) =>
                /\ current_key_index'[s] = current_key_index[s] + SwitchCalls(Caller)
                /\ PoolUnavailable(s) => PoolUnavailable(s)'
          /\ (Date(now') > Date(now) /\ api_keys > 0) => ~PoolUnavailable(s)']_vars

----------------------------------------------------------------------------
(* Specification SpecBackoff: the scheduler driven by one caller; the worker and
   the caller are scheduled fairly, but nothing makes the timer of the long
   backoff expire *)

\* worker i is in the time.sleep(3600) of line 71
InBackoff(i) ==
    /\ fetcher.w[i].pc = "sleep"
    /\ fetcher.w[i].sleeps # <<>>
    /\ Head(fetcher.w[i].sleeps) = ExhaustedBackoff

\* the steps of worker i other than the end of the long backoff
StepsButBackoff(i) == LifeWorkerNext(i) /\ ~InBackoff(i)

BackoffNext ==
    \/ \E i \in WorkerIds : LifeWorkerNext(i)
    \/ ControlNext("main")

SpecBackoff ==
    /\ Init
    /\ [][BackoffNext]_vars
    /\ \A i \in WorkerIds : WF_vars(StepsButBackoff(i))
    /\ WF_vars(Proceeds("main"))

\* the same with a timer that expires
SpecBackoffTimed ==
    /\ Init
    /\ [][BackoffNext]_vars
    /\ \A i \in WorkerIds : WF_vars(LifeWorkerNext(i))
    /\ WF_vars(Proceeds("main"))

\* C25: a worker that is in the long backoff when stop() has given its signal
\* terminates, whether or not the backoff timer expires.
StopInterruptsBackoff ==
    \A i \in WorkerIds :
        (fetcher.ctl["main"].pc \in {"stop_join", "joining"} /\ InBackoff(i))
            ~> ~Alive(i)

----------------------------------------------------------------------------
(* Claims about concurrent fetch cycles (SpecStore, Spec) *)

\* C26: when the worker and a request handler run a fetch cycle for the same
\* query concurrently, the store holds one row per external id and no cycle ends
\* with a database error: both complete as two consecutive cycles would.
ConcurrentCyclesBothComplete ==
    /\ \A v \in VideoIds : Cardinality(RowsOf(videos, v)) <= 1
    /\ \A t \in Racers :
          th[t].pc = "done" => th[t].result.outcome # "db_error"

\* the SearchCache rows of query q
SearchCacheRows(tbl, q) == {i \in DOMAIN tbl : tbl[i].query = q}

\* C27: when a fetch cycle that went through the remote API completes, the
\* SearchCache table holds exactly one row for its query, and the row has
\* last_fetched equal to the time of the cycle, total_results equal to the
\* number of items returned and the response's continuation token; no
\* interleaving of cycles makes a second row for a query.
OneSearchCacheRow ==
    [][/\ \A t \in Racers :
            (th[t].pc = "sc" /\ th'[t].pc = "done") =>
                LET rows == SearchCacheRows(search_cache', th[t].query)
                IN /\ Cardinality(rows) = 1
                   /\ \A i \in rows :
                         /\ search_cache'[i].last_fetched = now
                         /\ search_cache'[i].total_results = Len(th'[t].result.items)
                         /\ search_cache'[i].next_page_token = th'[t].result.nextPageToken
       /\ \A q \in FetchQueries : Cardinality(SearchCacheRows(search_cache', q)) <= 1]_vars

\* the ids of a page of items
IdsOf(items) == {items[i].video_id : i \in DOMAIN items}

\* C28: the stored_count a fetch cycle returns is the number of rows its commit
\* created: one per distinct id of the page that had no row, ids that had a row
\* or were repeated in the page being updated and not counted; the video table
\* grows by exactly that number in the cycle's commit and in no other step of
\* the cycle.
StoredCountIsGrowth ==
    [][\A t \in Racers :
          /\ (th[t].pc = "store" /\ th'[t].pc = "sc") =>
                LET new == {v \in IdsOf(th[t].videos) : RowsOf(videos, v) = {}}
                IN /\ th[t].stored_count = Cardinality(new)
                   /\ Len(videos') = Len(videos) + th[t].stored_count
                   /\ \A v \in IdsOf(th[t].videos) : Cardinality(RowsOf(videos', v)) = 1
          /\ (th[t].pc = "sc" /\ th'[t].pc = "done") =>
                /\ th'[t].result.outcome = "ok"
                /\ th'[t].result.stored_count = th[t].stored_count
                /\ videos' = videos
          /\ (th'[t].pc = "done" /\ th'[t].result.outcome = "ok"
                /\ th'[t].result.cached) => th'[t].result.stored_count = 0]_vars

\* a cycle returned a page of two ids of which one had a row: it counted one
StoredCountIsGrowthWitness ==
    \E t \in Racers :
        /\ th[t].pc = "done" /\ th[t].result.outcome = "ok"
        /\ Cardinality(IdsOf(th[t].result.items)) = 2
        /\ th[t].result.stored_count = 1
        /\ Len(videos) = 2

----------------------------------------------------------------------------
(* Claims about the workers of the scheduler (SpecLifecycle) *)

\* C29: under every interleaving of start() and stop() calls at most one
\* worker thread is alive: no start() makes a second worker beside a live one.
AtMostOneWorker == Cardinality({i \in WorkerIds : Alive(i)}) <= 1

----------------------------------------------------------------------------
(* Specification SpecQuota: one caller of fetch_videos on a service constructed
   over a database whose ledger already holds the day's charges of the first
   credential, one search short of the exhaustion threshold *)

MaxQuotaFetches == 6     \* fetch_videos calls of the caller
HardCap == 10000         \* the daily quota of a credential

\* the APIKeyUsage row of credential 0 after 94 searches on day 0
NearThreshold ==
    [api_key_hash |-> KeyHash(0), quota_used |-> QuotaThreshold - SearchCost,
     is_exhausted |-> FALSE, last_reset |-> 0]

QuotaInit ==
    /\ now = 0
    /\ api_keys \in 1..MaxKeys
    /\ current_key_index = [s \in Services |-> 0]
    /\ youtube = [s \in Services |-> 0]
    /\ videos = <<>>
    /\ ledger = <<NearThreshold>>
    /\ search_cache = <<>>
    /\ redis_client = "conn"
    /\ redis = EmptyRedis
    /\ th = [t \in Threads |-> IdleThread]
    /\ ret = NoRet
    /\ tu = [NoTrack EXCEPT !.charged[0] = NearThreshold.quota_used]
    /\ fetcher = NoFetcher

QuotaNext ==
    \/ StartFetch(Caller, {NoToken}, MaxQuotaFetches)
    \/ SearchOk(Caller, ShortBatches)
    \/ SearchQuotaExceeded(Caller)
    \/ TrackCommit(Caller)
    \/ DetailsOk(Caller, {TRUE})
    \/ CommitVideos(Caller)
    \/ UpdateSearchCache(Caller)
    \/ TickDay

SpecQuota == QuotaInit /\ [][QuotaNext]_vars

\* the ledger row of credential k is marked exhausted for the day of hour t
LedgerExhausted(led, k, t) ==
    \E i \in DOMAIN led :
        /\ led[i].api_key_hash = KeyHash(k)
        /\ led[i].is_exhausted
        /\ Date(led[i].last_reset) = Date(t)

\* C30: once _track_api_usage has marked a credential exhausted (quota_used >=
\* 9500), no search call is made with that credential for the rest of the day,
\* and the quota_used recorded for a credential stays below the 10,000-unit
\* daily quota.
ExhaustedCredentialUnused ==
    [][/\ (th[Caller].pc = "search" /\ th'[Caller] # th[Caller]) =>
             ~LedgerExhausted(ledger, youtube[ServiceOf(Caller)], now)
       /\ \A i \in DOMAIN ledger' : ledger'[i].quota_used < HardCap]_vars

====
